---------------------------- MODULE Spec2Model ----------------------------
(***************************************************************************)
(* Model of restapi_2023012.py: a Flask task manager whose request         *)
(* handlers share one module-level list, task_store, of task dicts.        *)
(*                                                                         *)
(* The handlers run on the server's handler threads.  Nothing in the       *)
(* source takes a lock, so a handler is modelled as the sequence of its    *)
(* accesses to shared state (the list, the dicts it references, the clock, *)
(* the uuid source); each access is one atomic step, as CPython's          *)
(* interpreter lock makes it, and purely local work (reading the request,  *)
(* validating it, building the response) is merged into the next access.   *)
(* `workers` is the number of handler threads that may be busy at once:    *)
(* 1 is a server that serves one request at a time, 2 a threaded server.   *)
(***************************************************************************)
EXTENDS Integers, Sequences, FiniteSets, TLC

(* ------------------------------ bounds -------------------------------- *)
\* Requests dispatched in one run.
MaxRequests == 2
\* The latest reading of the clock.
MaxClock == 3
\* The handler threads of the server: two, so that any two requests overlap.
Threads == {1, 2}

(* ------------------------------- text --------------------------------- *)
\* A str is a sequence of characters; " " stands for any whitespace.
Whitespace == {" "}

RECURSIVE LStrip(_)
LStrip(s) == IF s # <<>> /\ Head(s) \in Whitespace THEN LStrip(Tail(s)) ELSE s

RECURSIVE RStrip(_)
RStrip(s) ==
    IF s # <<>> /\ s[Len(s)] \in Whitespace
    THEN RStrip(SubSeq(s, 1, Len(s) - 1))
    ELSE s

\* str.strip()
Strip(s) == RStrip(LStrip(s))

(* --------------------------- request bodies --------------------------- *)
\* A JSON value under a key of the body: absent, a string, or a number.
\* `s` is the text str() gives for it.
Absent == [k |-> "absent", s |-> <<>>]
Str(s) == [k |-> "str", s |-> s]
Num7 == [k |-> "int", s |-> <<"7">>]

\* The value under "status": absent or a string.
NoStatus == [k |-> "absent", s |-> ""]
StatusStr(s) == [k |-> "str", s |-> s]

\* request.get_json(silent=True): None (no body, or not JSON), or a dict
\* with the keys present; `other` says the dict holds some other key.
NoBody ==
    [json |-> FALSE, title |-> Absent, description |-> Absent,
     status |-> NoStatus, other |-> FALSE]
Dict(t, d, s, o) ==
    [json |-> TRUE, title |-> t, description |-> d, status |-> s, other |-> o]

Has(payload, key) == payload[key].k # "absent"

\* Python's truth value of the parsed body: None and {} are false.
Truthy(data) ==
    /\ data.json
    /\ \/ Has(data, "title")
       \/ Has(data, "description")
       \/ Has(data, "status")
       \/ data.other

\* str(payload[key])
PyStr(v) == v.s
\* v.strip(): only a str has it.
HasStrip(v) == v.k = "str"

(* -------------------------------- tasks ------------------------------- *)
allowed_status == {"pending", "in_progress", "completed"}

\* The seeded timestamps, 2025-09-30T10:00:00 and T09:00:00, as clock
\* readings; the process starts no earlier than the later of them.
SeedTime1 == 2
SeedTime2 == 1

SeedTask1 ==
    [id |-> 1, title |-> <<"F">>, description |-> <<"B">>,
     status |-> "in_progress", created |-> SeedTime1, updated |-> SeedTime1]
SeedTask2 ==
    [id |-> 2, title |-> <<"P">>, description |-> <<"R">>,
     status |-> "pending", created |-> SeedTime2, updated |-> SeedTime2]

NoTask ==
    [id |-> 0, title |-> <<>>, description |-> <<>>, status |-> "",
     created |-> 0, updated |-> 0]

VARIABLES
    task_store,  \* the list: a sequence of references to task dicts
    heap,        \* the task dicts, by reference (1..Len(heap))
    uuids,       \* how many uuid4() values have been drawn
    now,         \* the clock's latest reading
    thr,         \* each handler thread: its request, position and locals
    requests,    \* requests dispatched so far
    workers,     \* how many threads may be busy at once
    appended     \* history: every reference appended to the list, in order

vars == <<task_store, heap, uuids, now, thr, requests, workers, appended>>


(* ------------------------------ responses ----------------------------- *)
\* What jsonify(...) and the status code give the client: the status code,
\* the "error" text, check_task_input's message where the handler passes it
\* on, the tasks serialized into the body, and the number sent with them
\* (total, count; the deleted id for remove_task).
Response(code, error, message, tasks, n) ==
    [code |-> code, error |-> error, message |-> message, tasks |-> tasks,
     n |-> n]

NoResponse == Response(0, "", <<>>, <<>>, 0)

\* An uncaught exception: Flask answers 500 (handle_500).
ServerError == Response(500, "Server error", <<>>, <<>>, 0)

(* ------------------------------- threads ------------------------------ *)
IdleThread ==
    [pc |-> "idle", op |-> "none", tid |-> 0, data |-> NoBody,
     status |-> NoStatus, t |-> 0, i |-> 0, result |-> <<>>,
     new_task |-> NoTask, now |-> 0, n |-> 0, pre |-> NoTask,
     resp |-> NoResponse]

\* The handler returns: its locals die, the response is on its way.
Return(th, resp) ==
    thr' = [thr EXCEPT ![th] =
               [@ EXCEPT !.pc = "done", !.resp = resp, !.i = 0,
                         !.result = <<>>, !.new_task = NoTask, !.now = 0,
                         !.n = 0]]

Busy == {th \in Threads : thr[th].pc # "idle"}

(* ------------------------------ utilities ----------------------------- *)
\* (a fault to test C1 against: the next id taken from the list's length)
uuid4_from_length == Len(task_store) + 1

\* uuid.uuid4(): a value no earlier call returned.
uuid4 == uuids + 1

\* (a fault to test C2 against: the status is not checked)
check_task_input_no_status(payload, must_have) ==
    IF \E j \in DOMAIN must_have :
           \/ ~Has(payload, must_have[j])
           \/ Strip(PyStr(payload[must_have[j]])) = <<>>
    THEN <<FALSE, <<"required and cannot be blank", "title">>>>
    ELSE <<TRUE, <<>>>>

\* check_task_input(payload, must_have): <<valid, msg>>.  The message of a
\* missing or blank key names the key; the status message lists the
\* allowed values.
check_task_input(payload, must_have) ==
    LET bad == {j \in DOMAIN must_have :
                   \/ ~Has(payload, must_have[j])
                   \/ Strip(PyStr(payload[must_have[j]])) = <<>>}
        first == CHOOSE j \in bad : \A m \in bad : j <= m
    IN  IF bad # {}
        THEN <<FALSE, <<"required and cannot be blank", must_have[first]>>>>
        ELSE IF Has(payload, "status")
                /\ payload["status"].s \notin allowed_status
        THEN <<FALSE, <<"Status must be one of">>>>
        ELSE <<TRUE, <<>>>>

\* The dicts the list references, in list order.
Tasks(refs) == [j \in DOMAIN refs |-> heap[refs[j]]]

(* ------------------------------ requests ------------------------------ *)
\* Ids a client can send: one that was never a task's id (0), and every id
\* generated so far.
Tids == 0..uuids

Titles == {Absent, Str(<<>>), Str(<<" ">>), Str(<<" ", "a", " ">>), Num7}
Descriptions == {Str(<<" ">>), Str(<<"d", " ">>), Num7}
Statuses ==
    {NoStatus, StatusStr("completed"), StatusStr("bogus"), StatusStr("")}

\* The bodies sent when requests are served one at a time: no body, an
\* object with an unknown key only, every title with every status (the empty
\* object among them), every description alone, and two bodies with a
\* title and a description.
AllBodies ==
    {NoBody, Dict(Absent, Absent, NoStatus, TRUE)}
    \cup {Dict(t, Absent, s, FALSE) : t \in Titles, s \in Statuses}
    \cup {Dict(Absent, d, NoStatus, FALSE) : d \in Descriptions}
    \cup {Dict(Str(<<" ", "a", " ">>), Str(<<"d", " ">>),
                StatusStr("completed"), FALSE),
           Dict(Str(<<" ", "a", " ">>), Num7, NoStatus, FALSE)}

\* The bodies sent when requests overlap: one of each kind.
SomeBodies ==
    {NoBody,
     Dict(Absent, Absent, NoStatus, FALSE),
     Dict(Str(<<" ">>), Absent, NoStatus, FALSE),
     Dict(Absent, Absent, StatusStr("bogus"), FALSE),
     Dict(Str(<<" ", "a", " ">>), Absent, StatusStr("bogus"), FALSE),
     Dict(Absent, Str(<<"d", " ">>), NoStatus, FALSE),
     Dict(Str(<<" ", "a", " ">>), Str(<<"d", " ">>), StatusStr("completed"), FALSE)}

Bodies == IF workers = 1 THEN AllBodies ELSE SomeBodies

\* ?status= of GET /tasks
Filters == Statuses \cup {StatusStr("pending")}

\* The module is loaded: the two demo tasks are in the list, no request yet.
Loaded ==
    /\ heap = <<SeedTask1, SeedTask2>>
    /\ task_store = <<1, 2>>
    /\ appended = <<1, 2>>
    /\ uuids = 2
    /\ now = SeedTime1
    /\ thr = [th \in Threads |-> IdleThread]
    /\ requests = 0

\* The threaded server: every handler thread may be busy.
Init == Loaded /\ workers = Cardinality(Threads)

\* A server that serves one request at a time.
InitSerial == Loaded /\ workers = 1

\* Flask routes a request to its handler on a free thread.
Dispatch(th) ==
    /\ thr[th].pc = "idle"
    /\ requests < MaxRequests
    /\ Cardinality(Busy) < workers
    /\ requests' = requests + 1
    /\ \E op \in {"list_tasks", "fetch_task", "add_task", "modify_task",
                  "remove_task", "remove_all"} :
         \E tid \in IF op \in {"fetch_task", "modify_task", "remove_task"}
                    THEN Tids ELSE {0} :
           \E data \in IF op \in {"add_task", "modify_task"}
                       THEN Bodies ELSE {NoBody} :
             \E status \in IF op = "list_tasks" THEN Filters ELSE {NoStatus} :
               thr' = [thr EXCEPT ![th] =
                          [IdleThread EXCEPT
                             !.op = op, !.tid = tid, !.data = data,
                             !.status = status,
                             !.pc = CASE op = "list_tasks" -> "list"
                                      [] op = "add_task" -> "add"
                                      [] op = "remove_all" -> "len"
                                      [] OTHER -> "get_task"]]
    /\ UNCHANGED <<task_store, heap, uuids, now, workers, appended>>

\* The response is sent and the thread is free again.
Reply(th) ==
    /\ thr[th].pc = "done"
    /\ thr' = [thr EXCEPT ![th] = IdleThread]
    /\ UNCHANGED <<task_store, heap, uuids, now, requests, workers, appended>>

\* datetime.now() reads `time`: the clock has not gone back since its latest
\* reading (time that passes between two readings shows in the second).
Readings == now..MaxClock
datetime_now(time) ==
    /\ time \in Readings
    /\ now' = time

\* (a fault to test C7 against: the scan takes the first task)
IdMatches_first(task, tid) == TRUE

\* t["id"] == tid
IdMatches(task, tid) == task.id = tid

\* get_task(tid), one element of the generator's scan per step: the list
\* iterator reads position i of the list as it is now.
get_task(th) ==
    LET me == thr[th] IN
    /\ me.pc = "get_task"
    /\ IF me.i >= Len(task_store)
       THEN \* exhausted: None, and each caller answers 404
            Return(th, Response(404, "Not Found", <<>>, <<>>, 0))
       ELSE LET ref == task_store[me.i + 1] IN
            IF IdMatches(heap[ref], me.tid)
            THEN thr' = [thr EXCEPT ![th] =
                     [@ EXCEPT !.t = ref, !.pre = heap[ref], !.i = 0,
                               !.pc = CASE me.op = "fetch_task" -> "jsonify"
                                        [] me.op = "modify_task" -> "validate"
                                        [] OTHER -> "remove"]]
            ELSE thr' = [thr EXCEPT ![th].i = me.i + 1]
    /\ UNCHANGED <<task_store, heap, uuids, now, requests, workers, appended>>

(* ----------------------------- list_tasks ----------------------------- *)
\* (a fault to test C5 against: the comparison negated)
StatusMatches_negated(task, status) == task.status # status.s

\* t["status"] == status
StatusMatches(task, status) == task.status = status.s

\* `if status:` is false for a missing parameter and for an empty one.
FilterGiven(status) == status.k # "absent" /\ status.s # ""

\* jsonify(tasks=..., total=...): the dicts are read as they are now.
Listing(refs) == Response(200, "", <<>>, Tasks(refs), Len(refs))

\* GET /tasks, first step: without a filter the whole list is serialized;
\* with one the comprehension starts.
list_tasks(th) ==
    LET me == thr[th] IN
    /\ me.pc = "list"
    /\ IF FilterGiven(me.status)
       THEN thr' = [thr EXCEPT ![th].pc = "filter"]
       ELSE Return(th, Listing(task_store))
    /\ UNCHANGED <<task_store, heap, uuids, now, requests, workers, appended>>

\* One element of [t for t in task_store if t["status"] == status]; at the
\* end of the list the result is serialized.
list_tasks_filter(th) ==
    LET me == thr[th] IN
    /\ me.pc = "filter"
    /\ IF me.i >= Len(task_store)
       THEN Return(th, Listing(me.result))
       ELSE LET ref == task_store[me.i + 1] IN
            thr' = [thr EXCEPT ![th] =
                [@ EXCEPT !.i = me.i + 1,
                          !.result = IF StatusMatches(heap[ref], me.status)
                                     THEN Append(me.result, ref)
                                     ELSE me.result]]
    /\ UNCHANGED <<task_store, heap, uuids, now, requests, workers, appended>>

(* ----------------------------- fetch_task ----------------------------- *)
\* jsonify(ok=True, task=t): the dict is read as it is now.
fetch_task(th) ==
    LET me == thr[th] IN
    /\ me.pc = "jsonify"
    /\ me.op = "fetch_task"
    /\ Return(th, Response(200, "", <<>>, <<heap[me.t]>>, 0))
    /\ UNCHANGED <<task_store, heap, uuids, now, requests, workers, appended>>

(* ------------------------------ add_task ------------------------------ *)
\* The dict add_task builds from a checked body.
NewTask(data, id, time) ==
    [id |-> id,
     title |-> Strip(data.title.s),
     description |-> IF Has(data, "description")
                     THEN Strip(data.description.s) ELSE <<>>,
     status |-> IF Has(data, "status") THEN data.status.s ELSE "pending",
     created |-> time,
     updated |-> time]

\* list.append(x)
ListAppend(list, x) == Append(list, x)

\* POST /tasks up to the finished dict: the body is read and checked, the
\* clock is read, then the dict literal is evaluated key by key (uuid4()
\* first; .strip() of a value that is no str raises).
add_task(th) ==
    LET me == thr[th]
        data == me.data
        checked == check_task_input(data, <<"title">>)
    IN
    /\ me.pc = "add"
    /\ IF ~Truthy(data)
       THEN /\ Return(th, Response(400, "Bad Request", <<>>, <<>>, 0))
            /\ UNCHANGED <<uuids, now>>
       ELSE IF ~checked[1]
       THEN /\ Return(th, Response(400, "Validation Error", checked[2], <<>>, 0))
            /\ UNCHANGED <<uuids, now>>
       ELSE \E time \in Readings :
            /\ datetime_now(time)
            /\ uuids' = uuids + 1
            /\ IF ~HasStrip(data.title)
                  \/ (Has(data, "description") /\ ~HasStrip(data.description))
               THEN Return(th, ServerError)
               ELSE thr' = [thr EXCEPT ![th] =
                        [@ EXCEPT !.pc = "append",
                                  !.new_task = NewTask(data, uuid4, time)]]
    /\ UNCHANGED <<task_store, heap, requests, workers, appended>>

\* task_store.append(new_task)
add_task_append(th) ==
    LET me == thr[th]
        ref == Len(heap) + 1
    IN
    /\ me.pc = "append"
    /\ heap' = Append(heap, me.new_task)
    /\ task_store' = ListAppend(task_store, ref)
    /\ appended' = Append(appended, ref)
    /\ thr' = [thr EXCEPT ![th] =
                  [@ EXCEPT !.pc = "jsonify", !.t = ref, !.new_task = NoTask]]
    /\ UNCHANGED <<uuids, now, requests, workers>>

\* jsonify(ok=True, task=new_task, ...), 201
add_task_jsonify(th) ==
    LET me == thr[th] IN
    /\ me.pc = "jsonify"
    /\ me.op = "add_task"
    /\ Return(th, Response(201, "", <<>>, <<heap[me.t]>>, 0))
    /\ UNCHANGED <<task_store, heap, uuids, now, requests, workers, appended>>

(* ----------------------------- modify_task ---------------------------- *)
\* (a fault to test C3 against: the title's blankness is not tested)
TitleApplies_if_present(data) == Has(data, "title")

\* `"title" in data and data["title"].strip()`
TitleApplies(data) == Has(data, "title") /\ Strip(data.title.s) # <<>>

\* (a fault to test C6 against: the description assigned to the wrong key)
ModifiedDescription_wrong_key(task, data) ==
    [task EXCEPT !.title = Strip(data.description.s)]

\* The three assignments of the body's fields to the dict.
ModifiedTitle(task, data) == [task EXCEPT !.title = Strip(data.title.s)]
ModifiedDescription(task, data) ==
    [task EXCEPT !.description = Strip(data.description.s)]
ModifiedStatus(task, data) == [task EXCEPT !.status = data.status.s]

\* Where modify_task goes on: each `if` that is false is skipped.
AfterDescription(data) == IF Has(data, "status") THEN "status" ELSE "now"
AfterTitle(data) ==
    IF Has(data, "description") THEN "description" ELSE AfterDescription(data)
AfterValidate(data) == IF TitleApplies(data) THEN "title" ELSE AfterTitle(data)

\* PUT /tasks/<tid> after the lookup: the body is read and checked with no
\* key required, and the title's condition is evaluated.
modify_task(th) ==
    LET me == thr[th]
        data == me.data
        checked == check_task_input(data, <<>>)
    IN
    /\ me.pc = "validate"
    /\ IF ~Truthy(data)
       THEN Return(th, Response(400, "Bad Request", <<>>, <<>>, 0))
       ELSE IF ~checked[1]
       THEN Return(th, Response(400, "Validation Error", checked[2], <<>>, 0))
       ELSE IF Has(data, "title") /\ ~HasStrip(data.title)
       THEN Return(th, ServerError)
       ELSE thr' = [thr EXCEPT ![th].pc = AfterValidate(data)]
    /\ UNCHANGED <<task_store, heap, uuids, now, requests, workers, appended>>

\* t["title"] = data["title"].strip()
modify_task_title(th) ==
    LET me == thr[th] IN
    /\ me.pc = "title"
    /\ heap' = [heap EXCEPT ![me.t] = ModifiedTitle(@, me.data)]
    /\ thr' = [thr EXCEPT ![th].pc = AfterTitle(me.data)]
    /\ UNCHANGED <<task_store, uuids, now, requests, workers, appended>>

\* t["description"] = data["description"].strip()
modify_task_description(th) ==
    LET me == thr[th] IN
    /\ me.pc = "description"
    /\ IF HasStrip(me.data.description)
       THEN /\ heap' = [heap EXCEPT ![me.t] = ModifiedDescription(@, me.data)]
            /\ thr' = [thr EXCEPT ![th].pc = AfterDescription(me.data)]
       ELSE /\ Return(th, ServerError)
            /\ UNCHANGED heap
    /\ UNCHANGED <<task_store, uuids, now, requests, workers, appended>>

\* t["status"] = data["status"]
modify_task_status(th) ==
    LET me == thr[th] IN
    /\ me.pc = "status"
    /\ heap' = [heap EXCEPT ![me.t] = ModifiedStatus(@, me.data)]
    /\ thr' = [thr EXCEPT ![th].pc = "now"]
    /\ UNCHANGED <<task_store, uuids, now, requests, workers, appended>>

\* datetime.now().isoformat(), the right-hand side of line 128
modify_task_now(th) ==
    /\ thr[th].pc = "now"
    /\ \E time \in Readings :
         /\ datetime_now(time)
         /\ thr' = [thr EXCEPT ![th].now = time, ![th].pc = "updated"]
    /\ UNCHANGED <<task_store, heap, uuids, requests, workers, appended>>

\* t["updated"] = ...
modify_task_updated(th) ==
    LET me == thr[th] IN
    /\ me.pc = "updated"
    /\ heap' = [heap EXCEPT ![me.t].updated = me.now]
    /\ thr' = [thr EXCEPT ![th].pc = "jsonify", ![th].now = 0]
    /\ UNCHANGED <<task_store, uuids, now, requests, workers, appended>>

\* jsonify(ok=True, task=t, message="Task updated")
modify_task_jsonify(th) ==
    LET me == thr[th] IN
    /\ me.pc = "jsonify"
    /\ me.op = "modify_task"
    /\ Return(th, Response(200, "", <<>>, <<heap[me.t]>>, 0))
    /\ UNCHANGED <<task_store, heap, uuids, now, requests, workers, appended>>

(* ----------------------------- remove_task ---------------------------- *)
\* The positions list.remove(x) can take: those whose element is x or
\* equals it (dicts are equal when their items are).
Positions(list, x) ==
    {j \in DOMAIN list : list[j] = x \/ heap[list[j]] = heap[x]}

\* The list without its element at position j.
WithoutAt(list, j) == SubSeq(list, 1, j - 1) \o SubSeq(list, j + 1, Len(list))

\* task_store.remove(t): the first such position goes; with none, list.remove
\* raises ValueError, which nothing catches.
remove_task(th) ==
    LET me == thr[th]
        at == Positions(task_store, me.t)
    IN
    /\ me.pc = "remove"
    /\ IF at = {}
       THEN /\ Return(th, ServerError)
            /\ UNCHANGED task_store
       ELSE /\ task_store' =
                  WithoutAt(task_store, CHOOSE j \in at : \A m \in at : j <= m)
            /\ Return(th, Response(200, "", <<>>, <<>>, me.tid))
    /\ UNCHANGED <<heap, uuids, now, requests, workers, appended>>

(* ------------------------------ remove_all ---------------------------- *)
\* n = len(task_store)
remove_all(th) ==
    /\ thr[th].pc = "len"
    /\ thr' = [thr EXCEPT ![th].n = Len(task_store), ![th].pc = "clear"]
    /\ UNCHANGED <<task_store, heap, uuids, now, requests, workers, appended>>

\* task_store.clear(), and the count is sent
remove_all_clear(th) ==
    /\ thr[th].pc = "clear"
    /\ task_store' = <<>>
    /\ Return(th, Response(200, "", <<>>, <<>>, thr[th].n))
    /\ UNCHANGED <<heap, uuids, now, requests, workers, appended>>

(* --------------------------- the whole server ------------------------- *)
Next ==
    \/ \E th \in Threads :
         \/ Dispatch(th)
         \/ Reply(th)
         \/ get_task(th)
         \/ list_tasks(th)
         \/ list_tasks_filter(th)
         \/ fetch_task(th)
         \/ add_task(th)
         \/ add_task_append(th)
         \/ add_task_jsonify(th)
         \/ modify_task(th)
         \/ modify_task_title(th)
         \/ modify_task_description(th)
         \/ modify_task_status(th)
         \/ modify_task_now(th)
         \/ modify_task_updated(th)
         \/ modify_task_jsonify(th)
         \/ remove_task(th)
         \/ remove_all(th)
         \/ remove_all_clear(th)

Spec == Init /\ [][Next]_vars

SpecSerial == InitSerial /\ [][Next]_vars

(* ------------------------------- claims ------------------------------- *)
Done(th) == thr[th].pc = "done"

\* Thread th takes this step.
Steps(th) == thr'[th] # thr[th]

StoredIds == {heap[task_store[j]].id : j \in DOMAIN task_store}

\* The title, description and status keys a body holds.
Supplied(data) == {key \in {"title", "description", "status"} : Has(data, key)}

SeveralFields ==
    Dict(Str(<<" ", "a", " ">>), Str(<<"d", " ">>), StatusStr("completed"), FALSE)

\* C1: in every reachable state, overlapping creates included, no two tasks
\* of the list have the same id.
C1_UniqueIds ==
    \A j, m \in DOMAIN task_store :
        j # m => heap[task_store[j]].id # heap[task_store[m]].id

\* Two overlapping POSTs have both appended their task.
C1_Witness ==
    /\ \A th \in Threads :
          /\ thr[th].op = "add_task"
          /\ thr[th].pc \in {"jsonify", "done"}
          /\ thr[th].t # 0
    /\ Len(task_store) = 4

\* C2: every task of the list has a status among the three allowed, and so
\* has every task a listing returns, whatever status the bodies carried.
C2_StatusAllowed ==
    /\ \A j \in DOMAIN task_store :
          heap[task_store[j]].status \in allowed_status
    /\ \A th \in Threads :
          Done(th) /\ thr[th].op = "list_tasks"
          => \A j \in DOMAIN thr[th].resp.tasks :
                 thr[th].resp.tasks[j].status \in allowed_status

\* A PUT to an existing task carrying a status outside the three has been
\* turned down.
C2_Witness ==
    \E th \in Threads :
        /\ Done(th)
        /\ thr[th].op = "modify_task"
        /\ thr[th].t # 0
        /\ thr[th].data.status = StatusStr("bogus")
        /\ thr[th].resp.error = "Validation Error"

\* C3: no task of the list has a blank title (empty or only whitespace).
C3_NoBlankTitle ==
    \A j \in DOMAIN task_store : Strip(heap[task_store[j]].title) # <<>>

\* A PUT with a whitespace-only title has succeeded on an existing task.
C3_Witness ==
    \E th \in Threads :
        /\ Done(th)
        /\ thr[th].op = "modify_task"
        /\ thr[th].data.title = Str(<<" ">>)
        /\ thr[th].resp.code = 200
        /\ thr[th].resp.tasks[1].title = thr[th].pre.title

\* C4: a PUT to an existing id whose body holds none of title, description
\* and status succeeds, changes no field but `updated`, and sets `updated`
\* to the time read.
C4_EmptyUpdateSucceeds ==
    \A th \in Threads :
        /\ Done(th)
        /\ thr[th].op = "modify_task"
        /\ thr[th].t # 0
        /\ thr[th].data.json
        /\ Supplied(thr[th].data) = {}
        => /\ thr[th].resp.code = 200
           /\ thr[th].resp.tasks =
                 <<[thr[th].pre EXCEPT !.updated = thr[th].resp.tasks[1].updated]>>

\* The tasks of the list with status s, in list order.
RECURSIVE WithStatus(_, _)
WithStatus(tasks, s) ==
    IF tasks = <<>> THEN <<>>
    ELSE IF Head(tasks).status = s
    THEN <<Head(tasks)>> \o WithStatus(Tail(tasks), s)
    ELSE WithStatus(Tail(tasks), s)

\* The position at which reference ref was appended.
AppendedAt(ref) == CHOOSE j \in DOMAIN appended : appended[j] = ref

\* The list holds its tasks oldest first.
InsertionOrder ==
    \A j, m \in DOMAIN task_store :
        j < m => AppendedAt(task_store[j]) < AppendedAt(task_store[m])

\* C5 as stated: without ?status= a listing returns every task; with it,
\* empty or not, exactly the tasks with that status, in insertion order, and
\* their number as total.
C5_AsStated ==
    \A th \in Threads :
        Done(th) /\ thr[th].op = "list_tasks"
        => /\ thr[th].resp.tasks =
                 IF thr[th].status.k = "absent"
                 THEN Tasks(task_store)
                 ELSE WithStatus(Tasks(task_store), thr[th].status.s)
           /\ thr[th].resp.n = Len(thr[th].resp.tasks)
           /\ InsertionOrder

\* C5, amended: without ?status=, or with an empty one, a listing returns
\* every task; with a non-empty one exactly the tasks with that status (none
\* when none has it); in both cases in insertion order, with their number
\* as total.
C5_Listing ==
    \A th \in Threads :
        Done(th) /\ thr[th].op = "list_tasks"
        => /\ thr[th].resp.tasks =
                 IF thr[th].status.k = "absent" \/ thr[th].status.s = ""
                 THEN Tasks(task_store)
                 ELSE WithStatus(Tasks(task_store), thr[th].status.s)
           /\ thr[th].resp.n = Len(thr[th].resp.tasks)
           /\ InsertionOrder

\* A listing by status has returned some of the tasks and left out others.
C5_Witness ==
    \E th \in Threads :
        /\ Done(th)
        /\ thr[th].op = "list_tasks"
        /\ thr[th].status = StatusStr("pending")
        /\ thr[th].resp.n = 1
        /\ Len(task_store) = 2

\* A body that holds a description and neither title nor status.
DescriptionOnly(data) == Supplied(data) = {"description"}

\* C6: every step of a PUT whose body holds only a description leaves the
\* list as it is, leaves every other dict as it is, leaves the title,
\* status, id and created of its task as they are, and when it assigns
\* `updated` the new value is no less than the one the task had when the
\* PUT found it.
C6_DescriptionOnlyFrame ==
    [][\A th \in Threads :
          /\ thr[th].op = "modify_task"
          /\ DescriptionOnly(thr[th].data)
          /\ Steps(th)
          => /\ task_store' = task_store
             /\ DOMAIN heap' = DOMAIN heap
             /\ \A ref \in DOMAIN heap :
                   /\ ref # thr[th].t => heap'[ref] = heap[ref]
                   /\ heap'[ref].title = heap[ref].title
                   /\ heap'[ref].status = heap[ref].status
                   /\ heap'[ref].id = heap[ref].id
                   /\ heap'[ref].created = heap[ref].created
                   /\ heap'[ref].updated # heap[ref].updated
                      => heap'[ref].updated >= thr[th].pre.updated
      ]_vars

\* A PUT holding only a description has changed the description of an
\* existing task and returned it.
C6_Witness ==
    \E th \in Threads :
        /\ Done(th)
        /\ thr[th].op = "modify_task"
        /\ DescriptionOnly(thr[th].data)
        /\ thr[th].resp.code = 200
        /\ thr[th].resp.tasks[1].description # thr[th].pre.description
        /\ thr[th].resp.tasks[1].updated >= thr[th].pre.updated

\* C7: every step of a PUT whose id is no task's in the list leaves the list
\* and the dicts as they are and goes nowhere but to the 404 answer, whatever
\* the body: the body is not looked at before the id.
C7_UnknownIdNotFound ==
    [][\A th \in Threads :
          /\ thr[th].op = "modify_task"
          /\ thr[th].tid \notin StoredIds
          /\ Steps(th)
          => /\ UNCHANGED <<task_store, heap>>
             /\ thr'[th].pc \in {"get_task", "done", "idle"}
             /\ thr'[th].pc = "done"
                => /\ thr'[th].resp.code = 404
                   /\ thr'[th].resp.error = "Not Found"
      ]_vars

\* A PUT with a valid body of several fields, to the id of a task that was
\* removed, has been answered 404.
C7_Witness ==
    \E th \in Threads :
        /\ Done(th)
        /\ thr[th].op = "modify_task"
        /\ thr[th].tid # 0
        /\ thr[th].data = SeveralFields
        /\ thr[th].resp.code = 404
        /\ Len(task_store) = 1

\* The title of a body is missing or blank.
TitleFault(data) == ~Has(data, "title") \/ Strip(PyStr(data.title)) = <<>>
\* The status of a body is present and not an allowed one.
StatusFault(data) == Has(data, "status") /\ data.status.s \notin allowed_status

\* C8: a POST whose body has no title or a blank one, or a status outside
\* the three, is answered with a validation error, the title's when both
\* faults are there (that it leaves the list alone is not in question).
C8_CreateRejected ==
    \A th \in Threads :
        /\ Done(th)
        /\ thr[th].op = "add_task"
        /\ thr[th].data.json
        /\ TitleFault(thr[th].data) \/ StatusFault(thr[th].data)
        => /\ thr[th].resp.code = 400
           /\ thr[th].resp.error = "Validation Error"
           /\ TitleFault(thr[th].data)
              => thr[th].resp.message =
                     <<"required and cannot be blank", "title">>

\* C9: every DELETE of one task ends with 200 or with 404, never with an
\* uncaught exception, however the requests interleave.
C9_DeleteOutcome ==
    \A th \in Threads :
        Done(th) /\ thr[th].op = "remove_task"
        => thr[th].resp.code \in {200, 404}

\* The positions of a PUT between its first assignment and its last.
Assigning == {"title", "description", "status", "now", "updated"}

\* C10: when a GET of one task or of the list returns while a PUT holding
\* several fields is between its first and its last assignment to a task,
\* the task it returns is the one the PUT found: none of the PUT's changes
\* is in it.  (Once the PUT has made its last assignment all of them are.)
C10_NoTornRead ==
    [][\A reader, writer \in Threads :
          /\ thr[reader].op \in {"fetch_task", "list_tasks"}
          /\ thr[reader].pc # "done"
          /\ thr'[reader].pc = "done"
          /\ thr[writer].op = "modify_task"
          /\ Cardinality(Supplied(thr[writer].data)) >= 2
          /\ thr[writer].pc \in Assigning
          => \A j \in DOMAIN thr'[reader].resp.tasks :
                 thr'[reader].resp.tasks[j].id = thr[writer].pre.id
                 => thr'[reader].resp.tasks[j] = thr[writer].pre
      ]_vars

============================================================================
